---- MODULE Spec2Model ----
(***************************************************************************)
(* tx-proxy: the two-stage fan-out pipeline.                               *)
(*   client -> AuthService? -> ValidationService (fan to the builders)     *)
(*          -> [tokio::spawn] ProxyService (fan to the L2 targets)         *)
(* composed as in tests/proxy.rs (ValidationLayer over ProxyLayer), with   *)
(* the AuthLayer of src/auth.rs in front when a secret is configured.      *)
(* Every await point of the code is an action boundary; the code between   *)
(* two await points is one action.                                         *)
(***************************************************************************)
EXTENDS Integers, Sequences, FiniteSets, TLC

\* ------------------------------------------------------------------ bounds
\* Number of builder (validator) targets of the FanoutWrite under test.
NumValidators == 2
\* Number of L2 (executor) targets of the FanoutWrite under test.
NumExecutors == 2

Validators == 1..NumValidators
Executors == 1..NumExecutors
\* Two inbound calls: the calls of a run, and the pair compared by the
\* two-run properties.
Calls == {1, 2}
\* Longest vector of responses handed to the selection on its own.
MaxResponses == 3

\* Longest slice handed to AnyOr::coalesce.
MaxItems == 3

\* ------------------------------------------------------- strings as tokens
\* A string is a sequence of one-character strings, so that `contains`
\* can be computed.
S_eth_ == <<"e", "t", "h", "_">>
S_net_peerCount ==
    <<"n", "e", "t", "_", "p", "e", "e", "r", "C", "o", "u", "n", "t">>
S_eth_call == <<"e", "t", "h", "_", "c", "a", "l", "l">>
S_bad_method == <<"b", "a", "d", "_", "m", "e", "t", "h", "o", "d">>
S_x_eth_y == <<"x", "_", "e", "t", "h", "_", "y">>
S_net_version == <<"n", "e", "t", "_", "v", "e", "r", "s", "i", "o", "n">>

\* Mutant of Contains: pat must be at the start of s (starts_with).
AtStart(s, pat) == Len(s) >= Len(pat) /\ SubSeq(s, 1, Len(pat)) = pat

\* str::contains: pat occurs in s at some offset.
Contains(s, pat) ==
    \E k \in 0..(Len(s) - Len(pat)) : SubSeq(s, k + 1, k + Len(pat)) = pat

ALLOWED_METHODS == <<S_eth_, S_net_peerCount>>

\* ALLOWED_METHODS.iter().any(|m| rpc_request.method.contains(m))
MethodAllowed(method) ==
    \E k \in 1..Len(ALLOWED_METHODS) : Contains(method, ALLOWED_METHODS[k])

\* Inputs of the model: the methods and params a caller sends.
Methods == {S_eth_call, S_net_peerCount, S_x_eth_y, S_bad_method, S_net_version}
Params == {<<>>, <<"0x1234">>}

\* Inbound bodies: a JSON-RPC request, a body whose read fails, bytes that
\* are not JSON, and a JSON object with no "method".
Body(kind, method, params) == [kind |-> kind, method |-> method, params |-> params]
JsonBodies == {Body("json", m, p) : m \in Methods, p \in Params}
UnreadableBody == Body("unreadable", <<>>, <<>>)
InvalidJsonBody == Body("invalid_json", <<>>, <<>>)
NoMethodBody == Body("no_method", <<>>, <<"0x1234">>)
Bodies == JsonBodies \cup {UnreadableBody, InvalidJsonBody, NoMethodBody}
EthCallBody == Body("json", S_eth_call, <<"0x1234">>)

\* http_helpers::read_body(..).await? and serde_json::from_slice::<Request>(..)?
read_body(body) == IF body.kind = "unreadable" THEN "err" ELSE "ok"
from_slice(body) == IF body.kind \in {"invalid_json", "no_method"} THEN "err" ELSE "ok"

\* Mutant of from_request: a body that is not a request is taken as a
\* request with an empty method.
from_request_lenient(body) == "ok"

\* RpcRequest::from_request: Ok when the body was read and holds a request.
from_request(body) ==
    IF read_body(body) = "err" THEN "err"
    ELSE IF from_slice(body) = "err" THEN "err"
    ELSE "ok"

\* ------------------------------------------------------------ HTTP values
\* An HTTP response: status and the body, a JSON-RPC envelope reduced to
\* what the proxy reads (tag, error code, error message as words) or text.
HttpResponse(status, tag, code, message) ==
    [status |-> status, tag |-> tag, code |-> code, message |-> message]

NoResponse == HttpResponse(0, "none", 0, <<>>)

INTERNAL_ERROR_CODE == -32603
PBH_PREFIX == <<"PBH", "Transaction", "Validation", "Failed">>

\* The responses a target can give.
OkPayload == HttpResponse(200, "result", 0, <<"0x1234">>)
PbhPayload ==
    HttpResponse(200, "error", INTERNAL_ERROR_CODE, PBH_PREFIX \o <<"bad", "proof">>)
AppErrPayload == HttpResponse(200, "error", -32601, <<"Method", "not", "found">>)
GarbagePayload == HttpResponse(200, "garbage", 0, <<>>)
Payloads == {OkPayload, PbhPayload, AppErrPayload, GarbagePayload}

\* More bodies that parse: the pbh error with its reason after the prefix,
\* -32603 with another message, the prefix under another code, and the
\* prefix not at the start of the message.
PbhReasonPayload ==
    HttpResponse(200, "error", INTERNAL_ERROR_CODE,
                 <<"PBH", "Transaction", "Validation", "Failed", ":", "Invalid", "calldata",
                   "encoding">>)
InternalErrPayload == HttpResponse(200, "error", INTERNAL_ERROR_CODE, <<"Internal", "error">>)
PbhOtherCodePayload ==
    HttpResponse(200, "error", -32000, <<"PBH", "Transaction", "Validation", "Failed">>)
PbhInsidePayload ==
    HttpResponse(200, "error", INTERNAL_ERROR_CODE,
                 <<"Error", "PBH", "Transaction", "Validation", "Failed">>)
ParsedPayloads ==
    {OkPayload, PbhPayload, AppErrPayload, PbhReasonPayload, InternalErrPayload,
     PbhOtherCodePayload, PbhInsidePayload}

\* Option<ErrorObjectOwned>: <<>> is None, <<e>> is Some(e).
None == <<>>
Some(x) == <<x>>

\* parse_response_payload: Err on a body that is no JSON-RPC response,
\* Ok(Some(error)) on an error payload, Ok(None) otherwise.
ParseFails(resp) == resp.tag = "garbage"
parse_response_payload(resp) ==
    IF resp.tag = "error"
    THEN Some([code |-> resp.code, message |-> resp.message])
    ELSE None

\* str::starts_with on words.
StartsWith(s, prefix) ==
    Len(s) >= Len(prefix) /\ SubSeq(s, 1, Len(prefix)) = prefix

\* RpcResponse { response, error }, with src the target it came from.
RpcResponse(src, response, error) ==
    [src |-> src, response |-> response, error |-> error]

NoRpcResponse == RpcResponse(0, NoResponse, None)

\* Mutant of pbh_error: the code alone decides.
pbh_error_by_code(res) ==
    IF res.error # None
    THEN res.error[1].code = INTERNAL_ERROR_CODE
    ELSE FALSE

pbh_error(res) ==
    IF res.error # None
    THEN res.error[1].code = INTERNAL_ERROR_CODE
         /\ StartsWith(res.error[1].message, PBH_PREFIX)
    ELSE FALSE

is_error(res) == res.error # None

\* ------------------------------------------------------ inbound JWT auth
\* A JWT as the validator sees it: whether it decodes, the key that signed
\* it, and iat minus the wall clock in seconds.
Jwt(wellformed, key, iatSkew) ==
    [wellformed |-> wellformed, key |-> key, iatSkew |-> iatSkew]

\* The first Authorization header: absent, or the words before the token
\* followed by the token.
Header(present, prefix, jwt) ==
    [present |-> present, prefix |-> prefix, jwt |-> jwt]

GoodJwt == Jwt(TRUE, "server", 0)
H_missing == Header(FALSE, <<>>, GoodJwt)
H_basic == Header(TRUE, <<"Basic ">>, GoodJwt)
H_valid == Header(TRUE, <<"Bearer ">>, GoodJwt)
H_badsig == Header(TRUE, <<"Bearer ">>, Jwt(TRUE, "other", 0))
H_skewed == Header(TRUE, <<"Bearer ">>, Jwt(TRUE, "server", 1000))
H_ahead60 == Header(TRUE, <<"Bearer ">>, Jwt(TRUE, "server", 60))
H_ahead61 == Header(TRUE, <<"Bearer ">>, Jwt(TRUE, "server", 61))
H_behind60 == Header(TRUE, <<"Bearer ">>, Jwt(TRUE, "server", -60))
H_behind61 == Header(TRUE, <<"Bearer ">>, Jwt(TRUE, "server", -61))
H_malformed == Header(TRUE, <<"Bearer ">>, Jwt(FALSE, "server", 0))
H_basic_bearer == Header(TRUE, <<"Basic ", "Bearer ">>, GoodJwt)
Headers ==
    {H_missing, H_basic, H_valid, H_badsig, H_skewed, H_malformed, H_basic_bearer,
     H_ahead60, H_ahead61, H_behind60, H_behind61}

\* get_bearer: auth.find("Bearer ") and the text after it. None when the
\* header is absent or holds no "Bearer "; otherwise the token: the words
\* that followed the first "Bearer " and the JWT.
get_bearer(h) ==
    IF ~h.present \/ ~(\E k \in 1..Len(h.prefix) : h.prefix[k] = "Bearer ")
    THEN None
    ELSE LET index == CHOOSE k \in 1..Len(h.prefix) :
                        /\ h.prefix[k] = "Bearer "
                        /\ \A j \in 1..(k - 1) : h.prefix[j] # "Bearer "
         IN Some([junk |-> SubSeq(h.prefix, index + 1, Len(h.prefix)),
                  jwt |-> h.jwt])

JWT_MAX_IAT_DIFF == 60

\* Mutant of SecretValidate: only an iat ahead of the clock is refused.
SecretValidateAheadOnly(token) ==
    IF token.junk # <<>> \/ ~token.jwt.wellformed
    THEN "JWT decoding error: InvalidToken"
    ELSE IF token.jwt.key # "server"
    THEN "Invalid signature"
    ELSE IF token.jwt.iatSkew > JWT_MAX_IAT_DIFF
    THEN "Invalid issuance timestamp"
    ELSE "ok"

\* JwtSecret::validate: decode and verify the signature, then the iat
\* window. "ok" or the JwtError's text.
SecretValidate(token) ==
    IF token.junk # <<>> \/ ~token.jwt.wellformed
    THEN "JWT decoding error: InvalidToken"
    ELSE IF token.jwt.key # "server"
    THEN "Invalid signature"
    ELSE IF token.jwt.iatSkew > JWT_MAX_IAT_DIFF
            \/ token.jwt.iatSkew < -JWT_MAX_IAT_DIFF
    THEN "Invalid issuance timestamp"
    ELSE "ok"

\* JwtAuthValidator::validate: "ok" or the text of the JwtError.
validate(h) ==
    IF get_bearer(h) = None
    THEN "Missing or invalid authorization header"
    ELSE SecretValidate(get_bearer(h)[1])

\* err_response: 401 with the error's text as body.
err_response(e) == HttpResponse(401, "text", 0, <<e>>)

\* The liveness path and the answer of the health layer.
HEALTH_PATH == "/healthz"
Paths == {"/", HEALTH_PATH}
health_response == HttpResponse(200, "text", 0, <<"OK">>)

\* invalid_method_response: 200 with the JSON-RPC error -32601.
invalid_method_response ==
    HttpResponse(200, "error", -32601, <<"Method", "not", "found">>)

\* ------------------------------------------------------------------ state
VARIABLES
    harness,      \* who composed the stack: "cli" (Cli::serve) or "test" (TestHarness::new)
    authEnabled,  \* Cli::serve was given an inbound JWT secret
    pc,           \* per call: idle, health, validation, fanning, done
    req,          \* per call: the inbound request (header, path, method, params)
    vfwd,         \* per call, per validator: state of HttpClient::forward
    vresp,        \* per call, per validator: the RpcResponse forward returned
    vbody,        \* per call, per validator: the HTTP response the target gave
    vorder,       \* per call: validators in the order their forwards finished
    epc,          \* per call: the detached task: none, spawned, fanning, done_ok,
                  \* done_err, done_rpc
    efwd,         \* per call, per executor: state of HttpClient::forward
    spawned,      \* per call: number of tokio::spawn calls made
    ereq,         \* per call: the request moved into the spawned task
    result,       \* per call: what the caller got
    recvV,        \* per call, per validator: requests the target received
    recvE,        \* per call, per executor: requests the target received
    cancelled,    \* per call: "no", or where the call was when the caller dropped it
    tuple,        \* selection alone: a vector of responses fan_request returned
    picked,       \* selection alone: the response selected from tuple
    flags,        \* selection alone: pbh_error() of each response of tuple
    detached,     \* selection alone: the inner service was spawned
    panicked,     \* selection alone: responses.remove(0) panicked
    builder_failed_requests,  \* per call: values recorded by the validation layer
    l2_failed_requests,       \* per call: values recorded by the proxy layer
    opts,            \* Cli::run: the parsed command line
    runpc,           \* Cli::run: off, start, metrics, secret, select, returned, exited
    server,          \* Cli::run: the RPC server: none, running, stopped, crashed
    runResult,       \* Cli::run: none, ok, err
    exitCode,        \* main: -1 while the process runs, then its exit code
    metricsTask,     \* the task init_metrics spawns: none, spawned, listening, ended
    metricsChannel,  \* the oneshot channel of init_metrics: open, closed, sent
    signals,         \* signals delivered to the process
    trigger,         \* Cli::run: the branch of select! that ran
    fanoutSecret,    \* the secret BuilderTargets::build gave the validator clients
    items,           \* coalesce alone: the items
    coalesced        \* coalesce alone: what AnyOr::coalesce returned

runVars ==
    <<opts, runpc, server, runResult, exitCode, metricsTask, metricsChannel, signals,
      trigger, fanoutSecret>>

coalesceVars == <<items, coalesced>>

vars ==
    <<harness, authEnabled, pc, req, vfwd, vresp, vbody, vorder, epc, efwd, spawned,
      ereq, result, recvV, recvE, cancelled, tuple, picked, flags, detached, panicked,
      builder_failed_requests, l2_failed_requests, runVars, coalesceVars>>

NoRequest ==
    [header |-> H_missing, path |-> "", kind |-> "json", method |-> <<>>, params |-> <<>>]
Pending == [kind |-> "pending", src |-> 0, response |-> NoResponse]
\* Ok(response) from the validator src (0: made by the proxy itself).
Response(src, response) == [kind |-> "response", src |-> src, response |-> response]
\* Err(BoxError) raised by the forward to validator src.
Failure(src) == [kind |-> "error", src |-> src, response |-> NoResponse]

InitState ==
    /\ pc = [c \in Calls |-> "idle"]
    /\ req = [c \in Calls |-> NoRequest]
    /\ vfwd = [c \in Calls |-> [i \in Validators |-> "init"]]
    /\ vresp = [c \in Calls |-> [i \in Validators |-> NoRpcResponse]]
    /\ vbody = [c \in Calls |-> [i \in Validators |-> NoResponse]]
    /\ vorder = [c \in Calls |-> <<>>]
    /\ epc = [c \in Calls |-> "none"]
    /\ efwd = [c \in Calls |-> [j \in Executors |-> "init"]]
    /\ spawned = [c \in Calls |-> 0]
    /\ ereq = [c \in Calls |-> NoRequest]
    /\ result = [c \in Calls |-> Pending]
    /\ recvV = [c \in Calls |-> [i \in Validators |-> <<>>]]
    /\ recvE = [c \in Calls |-> [j \in Executors |-> <<>>]]
    /\ cancelled = [c \in Calls |-> "no"]
    /\ builder_failed_requests = [c \in Calls |-> <<>>]
    /\ l2_failed_requests = [c \in Calls |-> <<>>]

\* Nothing handed to the selection on its own.
NoSelection ==
    tuple = <<>> /\ picked = None /\ flags = <<>> /\ detached = FALSE /\ panicked = FALSE

\* Nothing handed to coalesce on its own.
NoCoalesce == items = <<>> /\ coalesced = None

\* The command line: whether metrics are enabled, the inbound secret and the
\* validators' secret, each as a hex token, as a path to a file, or both.
\* A path leads to a file that holds a secret or to one that cannot be read.
Tokens == {"none", "hex"}
SecretPaths == {"none", "file", "unreadable"}
Options ==
    [metrics : BOOLEAN, jwt_token : Tokens, jwt_path : SecretPaths,
     builder_jwt_token : Tokens, builder_jwt_path : SecretPaths]
NoOptions ==
    [metrics |-> FALSE, jwt_token |-> "none", jwt_path |-> "none",
     builder_jwt_token |-> "none", builder_jwt_path |-> "none"]

\* The process as Cli::run finds it, the command line parsed.
RunStart ==
    /\ runpc = "start"
    /\ server = "none"
    /\ runResult = "none"
    /\ exitCode = -1
    /\ metricsTask = "none"
    /\ metricsChannel = "open"
    /\ signals = {}
    /\ trigger = "none"
    /\ fanoutSecret = "none"

\* No process: the stack is looked at on its own.
NoRun ==
    /\ opts = NoOptions
    /\ runpc = "off"
    /\ server = "none"
    /\ runResult = "none"
    /\ exitCode = -1
    /\ metricsTask = "none"
    /\ metricsChannel = "open"
    /\ signals = {}
    /\ trigger = "none"
    /\ fanoutSecret = "none"

\* Cli::serve stacks Auth (when a secret is configured), Health and
\* Validation over the RpcModule; TestHarness::new stacks Health, Validation
\* and Proxy, without inbound auth.
Init ==
    /\ harness \in {"cli", "test"}
    /\ authEnabled \in BOOLEAN
    /\ harness = "test" => ~authEnabled
    /\ InitState
    /\ NoSelection /\ NoCoalesce /\ NoRun

\* ------------------------------------------------------------ the request
\* Mutant of WireBody: the params are lost when the request is rebuilt.
WireBodyWithoutParams(r) == [method |-> r.method, params |-> <<>>]

\* From<RpcRequest> for http::Request and HttpClient::forward: the body put
\* on the wire is the caller's body.
WireBody(r) == [method |-> r.method, params |-> r.params]

\* The targets' URLs and the credential minted with a target's secret.
BuilderUrls == <<"http://builder_0", "http://builder_1", "http://builder_2">>
L2Urls == <<"http://l2_0", "http://l2_1", "http://l2_2">>
ValidatorUrl(i) == BuilderUrls[i]
ExecutorUrl(j) == L2Urls[j]
OutboundCredential == Header(TRUE, <<"Bearer ">>, Jwt(TRUE, "target", 0))

\* An HTTP request as its parts: the URI, the Authorization header, the body.
HttpRequest(uri, authorization, body) ==
    [uri |-> uri, authorization |-> authorization, body |-> body]

\* The client's auth layer: the Authorization header is set to the
\* credential of the target.
AuthClientCall(request) == [request EXCEPT !.authorization = OutboundCredential]

\* Mutant of forward_request: the URI of the caller's request is kept.
forward_request_keeping_uri(r, url) ==
    AuthClientCall(HttpRequest(r.path, r.header, WireBody(r)))

\* HttpClient::forward up to the call of the client: the RpcRequest made a
\* request again from its parts and body, its URI set to the target's URL.
forward_request(r, url) ==
    LET request == HttpRequest(r.path, r.header, WireBody(r))
        rewritten == [request EXCEPT !.uri = url]
    IN AuthClientCall(rewritten)

\* ----------------------------------------------------------- inbound call
\* Mutant of AuthServiceCall: the inner service is called whatever validate
\* returned.
AuthServiceCallUnchecked(c, h) ==
    /\ pc' = [pc EXCEPT ![c] = "health"]
    /\ UNCHANGED result

\* AuthService::call: the inner service is called only when validate is Ok;
\* otherwise the future resolves to the 401 response.
AuthServiceCall(c, h) ==
    IF validate(h) = "ok"
    THEN /\ pc' = [pc EXCEPT ![c] = "health"]
         /\ UNCHANGED result
    ELSE /\ pc' = [pc EXCEPT ![c] = "done"]
         /\ result' = [result EXCEPT ![c] = Response(0, err_response(validate(h)))]

\* A request arrives. With a secret configured the outermost layer is
\* AuthService; without one the request goes straight to the health layer.
Receive(c, h, u, b) ==
    /\ pc[c] = "idle"
    /\ req' = [req EXCEPT ![c] = [header |-> h, path |-> u, kind |-> b.kind,
                                  method |-> b.method, params |-> b.params]]
    /\ IF authEnabled
       THEN AuthServiceCall(c, h)
       ELSE /\ pc' = [pc EXCEPT ![c] = "health"]
            /\ UNCHANGED result
    /\ UNCHANGED <<cancelled, runVars, coalesceVars, builder_failed_requests,
                   l2_failed_requests, detached, panicked, tuple, picked, flags, authEnabled, harness, vfwd, vresp, vbody, vorder, epc, efwd, spawned,
                   ereq, recvV, recvE>>

\* The health layer: the liveness path is answered 200 "OK" without the
\* inner service; every other path goes to ValidationService.
HealthCall(c) ==
    /\ pc[c] = "health"
    /\ IF req[c].path = HEALTH_PATH
       THEN /\ pc' = [pc EXCEPT ![c] = "done"]
            /\ result' = [result EXCEPT ![c] = Response(0, health_response)]
       ELSE /\ pc' = [pc EXCEPT ![c] = "validation"]
            /\ UNCHANGED result
    /\ UNCHANGED <<cancelled, runVars, coalesceVars, builder_failed_requests,
                   l2_failed_requests, detached, panicked, tuple, picked, flags, authEnabled, harness, req, vfwd, vresp, vbody, vorder, epc, efwd, spawned,
                   ereq, recvV, recvE>>

\* Mutant of ValidationCall: no allow-list check (the layer as it was before
\* ALLOWED_METHODS).
ValidationCallWithoutAllowList(c) ==
    /\ pc[c] = "validation"
    /\ IF from_request(req[c]) = "err"
       THEN /\ result' = [result EXCEPT ![c] = Failure(0)]
            /\ pc' = [pc EXCEPT ![c] = "done"]
            /\ UNCHANGED vfwd
       ELSE /\ vfwd' = [vfwd EXCEPT ![c] = [i \in Validators |-> "pending"]]
            /\ pc' = [pc EXCEPT ![c] = "fanning"]
            /\ UNCHANGED result
    /\ UNCHANGED <<cancelled, runVars, coalesceVars, builder_failed_requests,
                   l2_failed_requests, detached, panicked, tuple, picked, flags, authEnabled, harness, req, vresp, vbody,
                   vorder, epc, efwd, spawned, ereq, recvV, recvE>>

\* ValidationService::call up to the await of fan_request: from_request,
\* whose error is returned with `?`, the allow-list check, then one forward
\* future per validator, all polled by try_join_all.
ValidationCall(c) ==
    /\ pc[c] = "validation"
    /\ IF from_request(req[c]) = "err"
       THEN /\ result' = [result EXCEPT ![c] = Failure(0)]
            /\ pc' = [pc EXCEPT ![c] = "done"]
            /\ UNCHANGED vfwd
       ELSE IF ~MethodAllowed(req[c].method)
       THEN /\ result' = [result EXCEPT ![c] = Response(0, invalid_method_response)]
            /\ pc' = [pc EXCEPT ![c] = "done"]
            /\ UNCHANGED vfwd
       ELSE /\ vfwd' = [vfwd EXCEPT ![c] = [i \in Validators |-> "pending"]]
            /\ pc' = [pc EXCEPT ![c] = "fanning"]
            /\ UNCHANGED result
    /\ UNCHANGED <<cancelled, runVars, coalesceVars, builder_failed_requests,
                   l2_failed_requests, detached, panicked, tuple, picked, flags, authEnabled, harness, req, vresp, vbody, vorder, epc, efwd, spawned, ereq, recvV, recvE>>

\* States of one HttpClient::forward future: init (not created), pending
\* (polled, nothing on the wire yet), sent (the target has the request), ok
\* (returned Ok), failed (returned a transport error), unparsed (returned
\* the parse error of the body), dropped (dropped before it finished).
IsErr(state) == state \in {"failed", "unparsed"}

\* HttpClient::forward, validator i: the request reaches the target.
VForwardSend(c, i) ==
    /\ pc[c] = "fanning"
    /\ vfwd[c][i] = "pending"
    /\ vfwd' = [vfwd EXCEPT ![c][i] = "sent"]
    /\ recvV' = [recvV EXCEPT ![c][i] = Append(@, forward_request(req[c], ValidatorUrl(i)))]
    /\ UNCHANGED <<cancelled, runVars, coalesceVars, builder_failed_requests,
                   l2_failed_requests, detached, panicked, tuple, picked, flags, authEnabled, harness, pc, req, vresp, vbody, vorder, epc, efwd, spawned, ereq, result, recvE>>

\* Mutant of VForwardRespond: a body that does not parse is returned as a
\* response with no error (unwrap_or(None) in the place of `?`).
VForwardRespondLenient(c, i, payload) ==
    /\ pc[c] = "fanning"
    /\ vfwd[c][i] = "sent"
    /\ vbody' = [vbody EXCEPT ![c][i] = payload]
    /\ vfwd' = [vfwd EXCEPT ![c][i] = "ok"]
    /\ vresp' = [vresp EXCEPT ![c][i] =
                    RpcResponse(i, payload,
                                IF ParseFails(payload) THEN None
                                ELSE parse_response_payload(payload))]
    /\ vorder' = [vorder EXCEPT ![c] = Append(@, i)]
    /\ UNCHANGED <<cancelled, runVars, coalesceVars, builder_failed_requests,
                   l2_failed_requests, detached, panicked, tuple, picked, flags, authEnabled, harness, pc, req, epc, efwd, spawned, ereq, result, recvV, recvE>>

\* HttpClient::forward, validator i: the target answers; the body is read
\* and parsed. A body that does not parse makes forward return Err.
VForwardRespond(c, i, payload) ==
    /\ pc[c] = "fanning"
    /\ vfwd[c][i] = "sent"
    /\ vbody' = [vbody EXCEPT ![c][i] = payload]
    /\ IF ParseFails(payload)
       THEN /\ vfwd' = [vfwd EXCEPT ![c][i] = "unparsed"]
            /\ UNCHANGED <<vresp, vorder>>
       ELSE /\ vfwd' = [vfwd EXCEPT ![c][i] = "ok"]
            /\ vresp' = [vresp EXCEPT ![c][i] =
                            RpcResponse(i, payload, parse_response_payload(payload))]
            /\ vorder' = [vorder EXCEPT ![c] = Append(@, i)]
    /\ UNCHANGED <<cancelled, runVars, coalesceVars, builder_failed_requests,
                   l2_failed_requests, detached, panicked, tuple, picked, flags, authEnabled, harness, pc, req, epc, efwd, spawned, ereq, result, recvV, recvE>>

\* Mutant of VForwardFail: a forward that failed is tried again.
VForwardFailRetried(c, i) ==
    /\ pc[c] = "fanning"
    /\ vfwd[c][i] \in {"pending", "sent"}
    /\ vfwd' = [vfwd EXCEPT ![c][i] = "pending"]
    /\ UNCHANGED <<cancelled, runVars, coalesceVars, builder_failed_requests,
                   l2_failed_requests, detached, panicked, tuple, picked, flags, authEnabled, harness, pc, req, vresp, vbody,
                   vorder, epc, efwd, spawned, ereq, result, recvV, recvE>>

\* HttpClient::forward, validator i: a transport error (connect failure
\* before the request is sent, or a failure while waiting for the answer).
VForwardFail(c, i) ==
    /\ pc[c] = "fanning"
    /\ vfwd[c][i] \in {"pending", "sent"}
    /\ vfwd' = [vfwd EXCEPT ![c][i] = "failed"]
    /\ UNCHANGED <<cancelled, runVars, coalesceVars, builder_failed_requests,
                   l2_failed_requests, detached, panicked, tuple, picked, flags, authEnabled, harness, pc, req, vresp, vbody, vorder, epc, efwd, spawned, ereq, result,
                   recvV, recvE>>

\* Mutant of try_join_all: the outputs in the order the futures finished
\* (as FuturesUnordered yields them).
join_in_completion_order(c) == [k \in 1..NumValidators |-> vresp[c][vorder[c][k]]]

\* Mutant of try_join_all: the outputs collected last target first.
join_in_reverse_order(c) ==
    [k \in 1..NumValidators |-> vresp[c][NumValidators + 1 - k]]

\* try_join_all's Ok: the outputs in the order of the futures.
try_join_all(c) == [i \in 1..NumValidators |-> vresp[c][i]]

\* Mutant of NoVeto: res_0 is skipped, as the selection loop skips it.
NoVetoAfterFirst(responses) ==
    \A k \in 2..Len(responses) : ~pbh_error(responses[k])

\* Mutant of NoVeto: any JSON-RPC error holds the executors back.
NoError(responses) == \A k \in 1..Len(responses) : ~is_error(responses[k])

\* responses.iter().all(|res| !res.pbh_error())
NoVeto(responses) == \A k \in 1..Len(responses) : ~pbh_error(responses[k])

\* Mutant of Scan: a pbh error does not end the loop, so the last one wins.
RECURSIVE ScanWithoutBreak(_, _)
ScanWithoutBreak(rest, response) ==
    IF rest = <<>>
    THEN response
    ELSE LET res == Head(rest)
         IN IF pbh_error(res)
            THEN ScanWithoutBreak(Tail(rest), Some(res))
            ELSE IF response = None /\ ~is_error(res)
            THEN ScanWithoutBreak(Tail(rest), Some(res))
            ELSE ScanWithoutBreak(Tail(rest), response)

\* The loop over the responses after res_0: the first pbh error ends it;
\* otherwise the first response that is no error is kept.
RECURSIVE Scan(_, _)
Scan(rest, response) ==
    IF rest = <<>>
    THEN response
    ELSE LET res == Head(rest)
         IN IF pbh_error(res)
            THEN Some(res)
            ELSE IF response = None /\ ~is_error(res)
            THEN Scan(Tail(rest), Some(res))
            ELSE Scan(Tail(rest), response)

\* Mutant of SelectResponse: the first response is returned, as
\* ProxyService::call does.
SelectFirstResponse(responses) == Head(responses)

\* responses.remove(0), the loop, response.unwrap_or(res_0).
SelectResponse(responses) ==
    LET res_0 == Head(responses)
        response == Scan(Tail(responses), None)
    IN IF response = None THEN res_0 ELSE response[1]

\* Mutant of VFanOk: the continuation runs once some forward returned Ok,
\* not once all have.
VFanOkOnFirst(c) ==
    /\ pc[c] = "fanning"
    /\ \E i \in Validators : vfwd[c][i] = "ok"
    /\ \A i \in Validators : ~IsErr(vfwd[c][i])
    /\ LET responses == try_join_all(c)
           chosen == SelectResponse(responses)
       IN /\ IF NoVeto(responses)
             THEN /\ spawned' = [spawned EXCEPT ![c] = @ + 1]
                  /\ ereq' = [ereq EXCEPT ![c] = req[c]]
                  /\ epc' = [epc EXCEPT ![c] = "spawned"]
             ELSE UNCHANGED <<spawned, ereq, epc>>
          /\ result' = [result EXCEPT ![c] = Response(chosen.src, chosen.response)]
          /\ builder_failed_requests' =
                 [builder_failed_requests EXCEPT
                     ![c] = Append(@, NumValidators - Len(responses))]
    /\ pc' = [pc EXCEPT ![c] = "done"]
    /\ UNCHANGED <<cancelled, runVars, coalesceVars,
                   l2_failed_requests, detached, panicked, tuple, picked, flags, authEnabled, harness, req, vfwd, vresp, vbody, vorder, efwd, recvV, recvE>>

\* Mutant of VFanOk: the veto check reads the responses of every call in
\* flight (one vector of responses shared by the clones of the service).
VFanOkSharedResponses(c) ==
    /\ pc[c] = "fanning"
    /\ \A i \in Validators : vfwd[c][i] = "ok"
    /\ LET responses == try_join_all(c)
           chosen == SelectResponse(responses)
       IN /\ IF \A d \in Calls : NoVeto(try_join_all(d))
             THEN /\ spawned' = [spawned EXCEPT ![c] = @ + 1]
                  /\ ereq' = [ereq EXCEPT ![c] = req[c]]
                  /\ epc' = [epc EXCEPT ![c] = "spawned"]
             ELSE UNCHANGED <<spawned, ereq, epc>>
          /\ result' = [result EXCEPT ![c] = Response(chosen.src, chosen.response)]
          /\ builder_failed_requests' =
                 [builder_failed_requests EXCEPT
                     ![c] = Append(@, NumValidators - Len(responses))]
    /\ pc' = [pc EXCEPT ![c] = "done"]
    /\ UNCHANGED <<cancelled, runVars, coalesceVars,
                   l2_failed_requests, detached, panicked, tuple, picked, flags, authEnabled, harness, req, vfwd, vresp,
                   vbody, vorder, efwd, recvV, recvE>>

\* ValidationService::call after fan_request returned Ok: the spawn of the
\* inner service when no response is a pbh error, then the selection.
VFanOk(c) ==
    /\ pc[c] = "fanning"
    /\ \A i \in Validators : vfwd[c][i] = "ok"
    /\ LET responses == try_join_all(c)
           chosen == SelectResponse(responses)
       IN /\ IF NoVeto(responses)
             THEN /\ spawned' = [spawned EXCEPT ![c] = @ + 1]
                  /\ ereq' = [ereq EXCEPT ![c] = req[c]]
                  /\ epc' = [epc EXCEPT ![c] = "spawned"]
             ELSE UNCHANGED <<spawned, ereq, epc>>
          /\ result' = [result EXCEPT ![c] = Response(chosen.src, chosen.response)]
          /\ builder_failed_requests' =
                 [builder_failed_requests EXCEPT
                     ![c] = Append(@, NumValidators - Len(responses))]
    /\ pc' = [pc EXCEPT ![c] = "done"]
    /\ UNCHANGED <<cancelled, runVars, coalesceVars,
                   l2_failed_requests, detached, panicked, tuple, picked, flags, authEnabled, harness, req, vfwd, vresp, vbody, vorder, efwd, recvV, recvE>>

\* The forwards a returning try_join_all drops unfinished.
DropUnfinished(states) ==
    [k \in DOMAIN states |->
        IF states[k] \in {"pending", "sent"} THEN "dropped" ELSE states[k]]

\* Mutant of VFanErr: the inner service is spawned before the error of the
\* fan is returned.
VFanErrAfterSpawn(c) ==
    /\ pc[c] = "fanning"
    /\ \E i \in Validators : IsErr(vfwd[c][i])
    /\ LET first == CHOOSE i \in Validators :
                      /\ IsErr(vfwd[c][i])
                      /\ \A k \in Validators : IsErr(vfwd[c][k]) => i <= k
       IN result' = [result EXCEPT ![c] = Failure(first)]
    /\ vfwd' = [vfwd EXCEPT ![c] = DropUnfinished(@)]
    /\ spawned' = [spawned EXCEPT ![c] = @ + 1]
    /\ ereq' = [ereq EXCEPT ![c] = req[c]]
    /\ epc' = [epc EXCEPT ![c] = "spawned"]
    /\ pc' = [pc EXCEPT ![c] = "done"]
    /\ UNCHANGED <<cancelled, runVars, coalesceVars, builder_failed_requests,
                   l2_failed_requests, detached, panicked, tuple, picked, flags, authEnabled, harness, req, vresp, vbody, vorder, efwd, recvV, recvE>>

\* fan_request returned Err: try_join_all found a failed forward (the first
\* in target order among those failed when it was polled); `?` returns the
\* error to the caller and the other futures are dropped.
VFanErr(c) ==
    /\ pc[c] = "fanning"
    /\ \E i \in Validators : IsErr(vfwd[c][i])
    /\ LET first == CHOOSE i \in Validators :
                      /\ IsErr(vfwd[c][i])
                      /\ \A k \in Validators : IsErr(vfwd[c][k]) => i <= k
       IN result' = [result EXCEPT ![c] = Failure(first)]
    /\ vfwd' = [vfwd EXCEPT ![c] = DropUnfinished(@)]
    /\ pc' = [pc EXCEPT ![c] = "done"]
    /\ UNCHANGED <<cancelled, runVars, coalesceVars, builder_failed_requests,
                   l2_failed_requests, detached, panicked, tuple, picked, flags, authEnabled, harness, req, vresp, vbody, vorder, epc, efwd, spawned, ereq, recvV, recvE>>

\* Mutant of CallerCancel: the call goes on without its caller (the whole
\* call run as a detached task).
CallerCancelDetached(c) ==
    /\ cancelled[c] = "no"
    /\ pc[c] \in {"validation", "fanning", "done"}
    /\ cancelled' = [cancelled EXCEPT ![c] = pc[c]]
    /\ UNCHANGED <<runVars, coalesceVars, builder_failed_requests,
                   l2_failed_requests, detached, panicked, tuple, picked, flags, authEnabled, harness, pc, req, vfwd, vresp, vbody,
                   vorder, epc, efwd, spawned, ereq, result, recvV, recvE>>

\* The caller disconnects and the server drops the future that
\* ValidationService::call returned. A future still at one of its awaits
\* (from_request, fan_request) never runs again, and the forwards that
\* try_join_all held are dropped with it; a future that has resolved is
\* not affected, and neither is the task it spawned.
CallerCancel(c) ==
    /\ cancelled[c] = "no"
    /\ pc[c] \in {"validation", "fanning", "done"}
    /\ cancelled' = [cancelled EXCEPT ![c] = pc[c]]
    /\ IF pc[c] = "done"
       THEN UNCHANGED <<pc, vfwd>>
       ELSE /\ pc' = [pc EXCEPT ![c] = "cancelled"]
            /\ vfwd' = [vfwd EXCEPT ![c] = DropUnfinished(@)]
    /\ UNCHANGED <<runVars, coalesceVars, builder_failed_requests,
                   l2_failed_requests, detached, panicked, tuple, picked, flags, authEnabled, harness, req, vresp, vbody, vorder, epc,
                   efwd, spawned, ereq, result, recvV, recvE>>

\* ------------------------------------------------- the detached task
\* The spawned task under Cli::serve: the inner service is the server's
\* RpcModule, which has no method; its answer is discarded.
RpcModuleCall(c) ==
    /\ harness = "cli"
    /\ epc[c] = "spawned"
    /\ epc' = [epc EXCEPT ![c] = "done_rpc"]
    /\ UNCHANGED <<cancelled, runVars, coalesceVars, builder_failed_requests,
                   l2_failed_requests, detached, panicked, tuple, picked, flags, authEnabled, harness, pc, req, vfwd, vresp, vbody, vorder, efwd, spawned,
                   ereq, result, recvV, recvE>>

\* ProxyService::call on the spawned task, up to the await of fan_request.
ProxyCall(c) ==
    /\ harness = "test"
    /\ epc[c] = "spawned"
    /\ efwd' = [efwd EXCEPT ![c] = [j \in Executors |-> "pending"]]
    /\ epc' = [epc EXCEPT ![c] = "fanning"]
    /\ UNCHANGED <<cancelled, runVars, coalesceVars, builder_failed_requests,
                   l2_failed_requests, detached, panicked, tuple, picked, flags, authEnabled, harness, pc, req, vfwd, vresp, vbody, vorder, spawned, ereq, result,
                   recvV, recvE>>

EForwardSend(c, j) ==
    /\ epc[c] = "fanning"
    /\ efwd[c][j] = "pending"
    /\ efwd' = [efwd EXCEPT ![c][j] = "sent"]
    /\ recvE' = [recvE EXCEPT ![c][j] = Append(@, forward_request(ereq[c], ExecutorUrl(j)))]
    /\ UNCHANGED <<cancelled, runVars, coalesceVars, builder_failed_requests,
                   l2_failed_requests, detached, panicked, tuple, picked, flags, authEnabled, harness, pc, req, vfwd, vresp, vbody, vorder, epc, spawned, ereq, result, recvV>>

EForwardRespond(c, j, payload) ==
    /\ epc[c] = "fanning"
    /\ efwd[c][j] = "sent"
    /\ efwd' = [efwd EXCEPT ![c][j] = IF ParseFails(payload) THEN "unparsed" ELSE "ok"]
    /\ UNCHANGED <<cancelled, runVars, coalesceVars, builder_failed_requests,
                   l2_failed_requests, detached, panicked, tuple, picked, flags, authEnabled, harness, pc, req, vfwd, vresp, vbody, vorder, epc, spawned, ereq, result,
                   recvV, recvE>>

EForwardFail(c, j) ==
    /\ epc[c] = "fanning"
    /\ efwd[c][j] \in {"pending", "sent"}
    /\ efwd' = [efwd EXCEPT ![c][j] = "failed"]
    /\ UNCHANGED <<cancelled, runVars, coalesceVars, builder_failed_requests,
                   l2_failed_requests, detached, panicked, tuple, picked, flags, authEnabled, harness, pc, req, vfwd, vresp, vbody, vorder, epc, spawned, ereq, result,
                   recvV, recvE>>

\* The executor fan returned Ok: the difference between the number of
\* targets and of responses is recorded; the task ends, its response
\* discarded.
EFanOk(c) ==
    /\ epc[c] = "fanning"
    /\ \A j \in Executors : efwd[c][j] = "ok"
    /\ epc' = [epc EXCEPT ![c] = "done_ok"]
    /\ l2_failed_requests' =
           [l2_failed_requests EXCEPT
               ![c] = Append(@, NumExecutors - Cardinality({j \in Executors : efwd[c][j] = "ok"}))]
    /\ UNCHANGED <<cancelled, runVars, coalesceVars, builder_failed_requests,
                   detached, panicked, tuple, picked, flags, authEnabled, harness, pc, req, vfwd, vresp, vbody, vorder, efwd, spawned, ereq, result,
                   recvV, recvE>>

\* Mutant of EFanErr: the forwards that failed are counted and recorded.
EFanErrCounted(c) ==
    /\ epc[c] = "fanning"
    /\ \E j \in Executors : IsErr(efwd[c][j])
    /\ efwd' = [efwd EXCEPT ![c] = DropUnfinished(@)]
    /\ epc' = [epc EXCEPT ![c] = "done_err"]
    /\ l2_failed_requests' =
           [l2_failed_requests EXCEPT
               ![c] = Append(@, Cardinality({j \in Executors : IsErr(efwd[c][j])}))]
    /\ UNCHANGED <<cancelled, runVars, coalesceVars, builder_failed_requests, detached,
                   panicked, tuple, picked, flags, authEnabled, harness, pc, req, vfwd, vresp,
                   vbody, vorder, spawned, ereq, result, recvV, recvE>>

\* Mutant of EFanErr: the error of the executor fan is handed to the caller
\* (the task awaited by the call instead of detached).
EFanErrSurfaced(c) ==
    /\ epc[c] = "fanning"
    /\ \E j \in Executors : IsErr(efwd[c][j])
    /\ efwd' = [efwd EXCEPT ![c] = DropUnfinished(@)]
    /\ epc' = [epc EXCEPT ![c] = "done_err"]
    /\ result' = [result EXCEPT ![c] = Failure(0)]
    /\ UNCHANGED <<cancelled, runVars, coalesceVars, builder_failed_requests,
                   l2_failed_requests, detached, panicked, tuple, picked, flags, authEnabled, harness, pc, req, vfwd, vresp, vbody, vorder, spawned, ereq,
                   recvV, recvE>>

\* The executor fan returned Err: the task ends, the error discarded.
EFanErr(c) ==
    /\ epc[c] = "fanning"
    /\ \E j \in Executors : IsErr(efwd[c][j])
    /\ efwd' = [efwd EXCEPT ![c] = DropUnfinished(@)]
    /\ epc' = [epc EXCEPT ![c] = "done_err"]
    /\ UNCHANGED <<cancelled, runVars, coalesceVars, builder_failed_requests,
                   l2_failed_requests, detached, panicked, tuple, picked, flags, authEnabled, harness, pc, req, vfwd, vresp, vbody, vorder, spawned, ereq, result,
                   recvV, recvE>>

\* ------------------------------------------------------- specifications
\* The headers callers send: every kind when the auth layer reads them,
\* none or a valid token when nothing does.
HeadersSent == IF authEnabled THEN Headers ELSE {H_missing, H_valid}

\* One inbound call, every kind of request.
Next ==
    \/ \E h \in HeadersSent, u \in Paths, b \in Bodies : Receive(1, h, u, b)
    \/ HealthCall(1)
    \/ ValidationCall(1)
    \/ \E i \in Validators : VForwardSend(1, i)
    \/ \E i \in Validators, payload \in Payloads : VForwardRespond(1, i, payload)
    \/ \E i \in Validators : VForwardFail(1, i)
    \/ VFanOk(1)
    \/ VFanErr(1)
    \/ RpcModuleCall(1)
    \/ ProxyCall(1)
    \/ \E j \in Executors : EForwardSend(1, j)
    \/ \E j \in Executors, payload \in Payloads : EForwardRespond(1, j, payload)
    \/ \E j \in Executors : EForwardFail(1, j)
    \/ EFanOk(1)
    \/ EFanErr(1)

Spec == Init /\ [][Next]_vars

\* Two concurrent inbound calls of an allowed method to the test harness:
\* the pair of runs that the two-run properties compare.
InitPair ==
    harness = "test" /\ authEnabled = FALSE /\ InitState /\ NoSelection /\ NoCoalesce /\ NoRun

NextPair ==
    \E c \in Calls :
        \/ Receive(c, H_missing, "/", EthCallBody)
        \/ HealthCall(c)
        \/ ValidationCall(c)
        \/ \E i \in Validators : VForwardSend(c, i)
        \/ \E i \in Validators, payload \in Payloads : VForwardRespond(c, i, payload)
        \/ \E i \in Validators : VForwardFail(c, i)
        \/ VFanOk(c)
        \/ VFanErr(c)
        \/ ProxyCall(c)
        \/ \E j \in Executors : EForwardSend(c, j)
        \/ \E j \in Executors, payload \in Payloads : EForwardRespond(c, j, payload)
        \/ \E j \in Executors : EForwardFail(c, j)
        \/ EFanOk(c)
        \/ EFanErr(c)

SpecPair == InitPair /\ [][NextPair]_vars

\* The steps the proxy takes by itself once they are possible (tokio polls
\* every task that is ready) and the delivery of a request to a target that
\* accepts it. What a target does with the request, answer or fail, is the
\* environment's: a target may never respond.
ProxyStep ==
    \/ HealthCall(1)
    \/ ValidationCall(1)
    \/ \E i \in Validators : VForwardSend(1, i)
    \/ VFanOk(1)
    \/ VFanErr(1)
    \/ RpcModuleCall(1)
    \/ ProxyCall(1)
    \/ \E j \in Executors : EForwardSend(1, j)
    \/ EFanOk(1)
    \/ EFanErr(1)

SpecFair == Init /\ [][Next]_vars /\ WF_vars(ProxyStep)

\* One inbound call of an allowed method to the test harness, which the
\* caller may drop at any moment. The proxy's own steps are taken once
\* possible, and here every target that was sent a request answers it or
\* fails it in the end.
InitCancel ==
    harness = "test" /\ authEnabled = FALSE /\ InitState /\ NoSelection /\ NoCoalesce /\ NoRun

NextCancel ==
    \/ Receive(1, H_missing, "/", EthCallBody)
    \/ CallerCancel(1)
    \/ HealthCall(1)
    \/ ValidationCall(1)
    \/ \E i \in Validators : VForwardSend(1, i)
    \/ \E i \in Validators, payload \in Payloads : VForwardRespond(1, i, payload)
    \/ \E i \in Validators : VForwardFail(1, i)
    \/ VFanOk(1)
    \/ VFanErr(1)
    \/ ProxyCall(1)
    \/ \E j \in Executors : EForwardSend(1, j)
    \/ \E j \in Executors, payload \in Payloads : EForwardRespond(1, j, payload)
    \/ \E j \in Executors : EForwardFail(1, j)
    \/ EFanOk(1)
    \/ EFanErr(1)

TargetStep ==
    \/ \E i \in Validators, payload \in Payloads : VForwardRespond(1, i, payload)
    \/ \E i \in Validators : VForwardFail(1, i)
    \/ \E j \in Executors, payload \in Payloads : EForwardRespond(1, j, payload)
    \/ \E j \in Executors : EForwardFail(1, j)

SpecCancel ==
    InitCancel /\ [][NextCancel]_vars /\ WF_vars(ProxyStep) /\ WF_vars(TargetStep)

\* The selection and the classification on their own: a vector of up to
\* MaxResponses responses, as fan_request returns it (every body parsed,
\* one response per target of the FanoutWrite, none when it has no target),
\* is classified and handed to the selection.
ResponsesOf(payloads) ==
    [k \in DOMAIN payloads |->
        RpcResponse(k, payloads[k], parse_response_payload(payloads[k]))]

Tuples ==
    {ResponsesOf(payloads) :
        payloads \in UNION {[1..n -> ParsedPayloads] : n \in 0..MaxResponses}}

InitSelect ==
    /\ harness = "test" /\ authEnabled = FALSE /\ InitState /\ NoCoalesce /\ NoRun
    /\ tuple \in Tuples
    /\ picked = None
    /\ flags = <<>>
    /\ detached = FALSE
    /\ panicked = FALSE

\* ValidationService::call from the veto check on: the inner service is
\* spawned when no response is a pbh error, then responses.remove(0), which
\* panics on an empty vector, and the selection.
Select ==
    /\ picked = None /\ ~panicked
    /\ flags' = [k \in DOMAIN tuple |-> pbh_error(tuple[k])]
    /\ detached' = NoVeto(tuple)
    /\ IF tuple = <<>>
       THEN /\ panicked' = TRUE
            /\ UNCHANGED picked
       ELSE /\ picked' = Some(SelectResponse(tuple))
            /\ UNCHANGED panicked
    /\ UNCHANGED <<runVars, coalesceVars, builder_failed_requests, l2_failed_requests,
                   cancelled, tuple, authEnabled, harness, pc, req, vfwd, vresp, vbody, vorder,
                   epc, efwd, spawned, ereq, result, recvV, recvE>>

NextSelect == Select

SpecSelect == InitSelect /\ [][NextSelect]_vars

\* ------------------------------------------------------------ the process
\* A secret read from the command line: the hex token when it is given,
\* else the contents of the file at the path, else none at all. "err" is
\* the error of JwtSecret::from_file.
secret_of(token, path) ==
    IF token # "none" THEN "hex"
    ELSE IF path = "file" THEN "file"
    ELSE IF path = "unreadable" THEN "err"
    ELSE "none"

\* Cli::jwt_secret: Ok(Some), Ok(None) or the error of from_file.
jwt_secret == secret_of(opts.jwt_token, opts.jwt_path)

\* Mutant of get_jwt: the file at the path is read before the token is
\* looked at.
get_jwt_path_first ==
    IF opts.builder_jwt_path = "file" THEN "file"
    ELSE IF opts.builder_jwt_path = "unreadable" THEN "err"
    ELSE IF opts.builder_jwt_token # "none" THEN "hex"
    ELSE "err"

\* BuilderTargets::get_jwt: as jwt_secret, but no secret at all is an error.
get_jwt ==
    IF opts.builder_jwt_token # "none" THEN "hex"
    ELSE IF opts.builder_jwt_path = "file" THEN "file"
    ELSE IF opts.builder_jwt_path = "unreadable" THEN "err"
    ELSE "err"

\* Cli::init_metrics: with metrics enabled the task that runs the metrics
\* server is spawned and owns the sender of the shutdown channel; with
\* metrics disabled nothing takes the sender, which is dropped when
\* init_metrics returns.
InitMetrics ==
    /\ runpc = "start"
    /\ IF opts.metrics
       THEN /\ metricsTask' = "spawned"
            /\ UNCHANGED metricsChannel
       ELSE /\ metricsChannel' = "closed"
            /\ UNCHANGED metricsTask
    /\ runpc' = "metrics"
    /\ UNCHANGED <<opts, server, runResult, exitCode, signals, trigger, fanoutSecret,
                   authEnabled, harness, pc, req, vfwd, vresp, vbody, vorder, epc, efwd, spawned, ereq,
                   result, recvV, recvE, cancelled, tuple, picked, flags, detached, panicked,
                   builder_failed_requests, l2_failed_requests, coalesceVars>>

\* init_metrics_server on its task: the listener is bound and the accept
\* loop runs for ever, or the bind fails, the error is logged and the task
\* sends on the shutdown channel.
MetricsServer(bound) ==
    /\ metricsTask = "spawned"
    /\ IF bound
       THEN /\ metricsTask' = "listening"
            /\ UNCHANGED metricsChannel
       ELSE /\ metricsTask' = "ended"
            /\ metricsChannel' = "sent"
    /\ UNCHANGED <<opts, runpc, server, runResult, exitCode, signals, trigger, fanoutSecret,
                   authEnabled, harness, pc, req, vfwd, vresp, vbody, vorder, epc, efwd, spawned, ereq,
                   result, recvV, recvE, cancelled, tuple, picked, flags, detached, panicked,
                   builder_failed_requests, l2_failed_requests, coalesceVars>>

\* Cli::run, self.jwt_secret()?: the error of from_file ends run.
JwtSecretStep ==
    /\ runpc = "metrics"
    /\ IF jwt_secret = "err"
       THEN /\ runpc' = "returned"
            /\ runResult' = "err"
       ELSE /\ runpc' = "secret"
            /\ UNCHANGED runResult
    /\ UNCHANGED <<opts, server, exitCode, metricsTask, metricsChannel, signals, trigger,
                   fanoutSecret, authEnabled, harness, pc, req, vfwd, vresp, vbody, vorder, epc, efwd, spawned, ereq,
                   result, recvV, recvE, cancelled, tuple, picked, flags, detached, panicked,
                   builder_failed_requests, l2_failed_requests, coalesceVars>>

\* Cli::serve: the middleware is built first, and builder_targets.build()?
\* returns the error of get_jwt; then the server is built, which binds the
\* address and may fail; then it is started. The auth layer is stacked when
\* a secret was given.
Serve(bound) ==
    /\ runpc = "secret"
    /\ IF get_jwt = "err" \/ ~bound
       THEN /\ runpc' = "returned"
            /\ runResult' = "err"
            /\ UNCHANGED <<server, fanoutSecret, authEnabled>>
       ELSE /\ runpc' = "select"
            /\ server' = "running"
            /\ fanoutSecret' = get_jwt
            /\ authEnabled' = (jwt_secret # "none")
            /\ UNCHANGED runResult
    /\ UNCHANGED <<opts, exitCode, metricsTask, metricsChannel, signals, trigger,
                   harness, pc, req, vfwd, vresp, vbody, vorder, epc, efwd, spawned, ereq,
                   result, recvV, recvE, cancelled, tuple, picked, flags, detached, panicked,
                   builder_failed_requests, l2_failed_requests, coalesceVars>>

\* The environment: SIGINT or SIGTERM is delivered while run waits.
Signal(sig) ==
    /\ runpc = "select"
    /\ sig \notin signals
    /\ signals' = signals \cup {sig}
    /\ UNCHANGED <<opts, runpc, server, runResult, exitCode, metricsTask, metricsChannel,
                   trigger, fanoutSecret, authEnabled, harness, pc, req, vfwd, vresp, vbody, vorder, epc, efwd, spawned, ereq,
                   result, recvV, recvE, cancelled, tuple, picked, flags, detached, panicked,
                   builder_failed_requests, l2_failed_requests, coalesceVars>>

\* The environment: the server stops by itself.
ServerStops ==
    /\ runpc = "select"
    /\ server = "running"
    /\ server' = "crashed"
    /\ UNCHANGED <<opts, runpc, runResult, exitCode, metricsTask, metricsChannel, signals,
                   trigger, fanoutSecret, authEnabled, harness, pc, req, vfwd, vresp, vbody, vorder, epc, efwd, spawned, ereq,
                   result, recvV, recvE, cancelled, tuple, picked, flags, detached, panicked,
                   builder_failed_requests, l2_failed_requests, coalesceVars>>

\* handle.stop()?: an error when the server has stopped already.
StopAndReturn(branch) ==
    /\ trigger' = branch
    /\ runpc' = "returned"
    /\ IF server = "running"
       THEN /\ server' = "stopped"
            /\ runResult' = "ok"
       ELSE /\ runResult' = "err"
            /\ UNCHANGED server

\* Cli::run, tokio::select!: one of the branches that are ready runs. The
\* receiver of the shutdown channel is ready once a value was sent and also
\* once its sender was dropped; the branch takes either result.
SelectBranch(branch) ==
    /\ runpc = "select"
    /\ \/ /\ branch = "stopped"
          /\ server = "crashed"
          /\ trigger' = branch
          /\ runpc' = "returned"
          /\ runResult' = "err"
          /\ UNCHANGED server
       \/ /\ branch = "ctrl_c"
          /\ "SIGINT" \in signals
          /\ StopAndReturn(branch)
       \/ /\ branch = "metrics"
          /\ metricsChannel \in {"closed", "sent"}
          /\ StopAndReturn(branch)
       \/ /\ branch = "sigterm"
          /\ "SIGTERM" \in signals
          /\ StopAndReturn(branch)
    /\ UNCHANGED <<opts, exitCode, metricsTask, metricsChannel, signals, fanoutSecret,
                   authEnabled, harness, pc, req, vfwd, vresp, vbody, vorder, epc, efwd, spawned, ereq,
                   result, recvV, recvE, cancelled, tuple, picked, flags, detached, panicked,
                   builder_failed_requests, l2_failed_requests, coalesceVars>>

\* main: an Err from run is printed and the process exits with 1; after Ok
\* main returns and the process exits with 0.
MainExit ==
    /\ runpc = "returned"
    /\ runpc' = "exited"
    /\ exitCode' = IF runResult = "err" THEN 1 ELSE 0
    /\ UNCHANGED <<opts, server, runResult, metricsTask, metricsChannel, signals, trigger,
                   fanoutSecret, authEnabled, harness, pc, req, vfwd, vresp, vbody, vorder, epc, efwd, spawned, ereq,
                   result, recvV, recvE, cancelled, tuple, picked, flags, detached, panicked,
                   builder_failed_requests, l2_failed_requests, coalesceVars>>

Branches == {"stopped", "ctrl_c", "metrics", "sigterm"}

\* The process from Cli::parse to its exit, for every command line.
InitRun ==
    /\ harness = "cli" /\ authEnabled = FALSE /\ InitState /\ NoSelection /\ NoCoalesce
    /\ opts \in Options
    /\ RunStart

NextRun ==
    \/ InitMetrics
    \/ \E bound \in BOOLEAN : MetricsServer(bound)
    \/ JwtSecretStep
    \/ \E bound \in BOOLEAN : Serve(bound)
    \/ \E sig \in {"SIGINT", "SIGTERM"} : Signal(sig)
    \/ ServerStops
    \/ \E branch \in Branches : SelectBranch(branch)
    \/ MainExit

SpecRun == InitRun /\ [][NextRun]_vars

\* ------------------------------------------------------------ AnyOr<T>
\* enum AnyOr<T> { Any, Specific(T) }; Any is written AnyOrAny, the name Any
\* being taken by the TLC module.
AnyOrAny == [tag |-> "Any"]

Specific(v) == [tag |-> "Specific", value |-> v]

\* The values of T that the items carry (those of tests::coalesce).
ItemValues == {1, 2, 47}

AnyOrItems == {AnyOrAny} \cup {Specific(v) : v \in ItemValues}

\* The loop of AnyOr::coalesce from item k on, ret being the vector built so
\* far: an Any item returns at once, a Specific item pushes its value.
RECURSIVE coalesce_from(_, _, _)
coalesce_from(its, k, ret) ==
    IF k > Len(its)
    THEN Specific(ret)
    ELSE IF its[k] = AnyOrAny
         THEN AnyOrAny
         ELSE coalesce_from(its, k + 1, Append(ret, its[k].value))

\* Mutant of coalesce: an Any item is passed over instead of returned.
coalesce_skipping_any(its) ==
    Specific([k \in 1..Len(SelectSeq(its, LAMBDA i : i # AnyOrAny)) |->
                 SelectSeq(its, LAMBDA i : i # AnyOrAny)[k].value])

\* AnyOr::coalesce(items)
coalesce(its) == coalesce_from(its, 1, <<>>)

ItemSlices == UNION {[1..n -> AnyOrItems] : n \in 0..MaxItems}

InitCoalesce ==
    /\ harness = "test" /\ authEnabled = FALSE /\ InitState /\ NoSelection /\ NoRun
    /\ items \in ItemSlices
    /\ coalesced = None

Coalesce ==
    /\ coalesced = None
    /\ coalesced' = Some(coalesce(items))
    /\ UNCHANGED <<items, runVars, builder_failed_requests, l2_failed_requests, cancelled,
                   detached, panicked, tuple, picked, flags, authEnabled, harness, pc, req,
                   vfwd, vresp, vbody, vorder, epc, efwd, spawned, ereq, result, recvV, recvE>>

NextCoalesce == Coalesce

SpecCoalesce == InitCoalesce /\ [][NextCoalesce]_vars

\* ----------------------------------------------------------- vocabulary
\* The call is over and fan_request had returned Ok (every forward Ok).
FanOk(c) == pc[c] = "done" /\ \A i \in Validators : vfwd[c][i] = "ok"

\* Validator i answered the call with a pbh error.
VetoAt(c, i) == vfwd[c][i] = "ok" /\ pbh_error(vresp[c][i])
Vetoed(c) == \E i \in Validators : VetoAt(c, i)

\* Nothing of the call reached the executor stage / the validator stage.
NoExecutorEffect(c) ==
    /\ spawned[c] = 0
    /\ epc[c] = "none"
    /\ \A j \in Executors : efwd[c][j] = "init" /\ recvE[c][j] = <<>>
NoValidatorEffect(c) ==
    \A i \in Validators : vfwd[c][i] = "init" /\ recvV[c][i] = <<>>

\* The class of a validator response: pbh (veto), error (another JSON-RPC
\* error) or success.
Kind(res) ==
    IF pbh_error(res) THEN "pbh" ELSE IF is_error(res) THEN "error" ELSE "success"
Kinds(c) == [i \in Validators |-> Kind(vresp[c][i])]

\* The request passed the inbound auth layer (or there is none).
Admitted(c) ==
    /\ pc[c] \notin {"idle", "health"}
    /\ authEnabled => validate(req[c].header) = "ok"
    /\ req[c].path # HEALTH_PATH

\* The detached task has ended.
TaskEnded(c) == epc[c] \in {"done_ok", "done_err", "done_rpc"}

\* The caller's body, and what the claims call matching the allow-list.
CallerBody(c) == [method |-> req[c].method, params |-> req[c].params]
\* The bodies of the requests a target received.
BodiesOf(requests) == [k \in DOMAIN requests |-> requests[k].body]
\* The caller's request, decomposed.
CallerRequest(c) == HttpRequest(req[c].path, req[c].header, CallerBody(c))
MatchesAllowList(method) ==
    Contains(method, S_eth_) \/ Contains(method, S_net_peerCount)

\* The methods of the model in which "eth_" or "net_peerCount" occurs, read
\* off their names: in x_eth_y the pattern is not at the start; bad_method
\* and net_version hold neither pattern.
MethodsHoldingAPattern == {S_eth_call, S_net_peerCount, S_x_eth_y}

\* The forward to validator i / executor j has returned.
VFinished(c, i) == vfwd[c][i] \in {"ok", "failed", "unparsed"}
EFinished(c, j) == efwd[c][j] \in {"ok", "failed", "unparsed"}

\* The header's value starts with "Bearer ".
HasBearerPrefix(h) == h.present /\ h.prefix # <<>> /\ h.prefix[1] = "Bearer "

\* ----------------------------------------------------------------- claims

\* C1: if any validator response of a call is a pbh_error (at any index,
\* the first included), the inner service is never invoked for the call and
\* no executor target receives a request for it.
VetoShortCircuitsExecutors ==
    \A c \in Calls : Vetoed(c) => NoExecutorEffect(c)

\* C1 witness: a finished call whose first validator vetoed and whose
\* other validators all succeeded.
VetoAtFirstReached ==
    /\ FanOk(1)
    /\ VetoAt(1, 1)
    /\ \A i \in Validators \ {1} : Kind(vresp[1][i]) = "success"
    /\ result[1].kind = "response"

\* C2 (as claimed): whenever some validator response is a pbh_error, the
\* response returned to the client is the response of a validator that
\* vetoed.
VetoWinsOverSuccess ==
    \A c \in Calls :
        FanOk(c) /\ Vetoed(c) =>
            /\ result[c].kind = "response"
            /\ result[c].src \in Validators
            /\ VetoAt(c, result[c].src)

AllowListGate ==
    \A c \in Calls :
        pc[c] # "idle" /\ req[c].kind = "json" /\ ~MatchesAllowList(req[c].method) =>
            /\ NoValidatorEffect(c)
            /\ NoExecutorEffect(c)
            /\ pc[c] = "done" /\ Admitted(c) =>
                   result[c] =
                       Response(0, HttpResponse(200, "error", -32601,
                                                <<"Method", "not", "found">>))

\* C4 witness: bad_method was answered by the validation layer.
BadMethodAnswered ==
    /\ pc[1] = "done"
    /\ Admitted(1)
    /\ req[1].method = S_bad_method
    /\ result[1].response.code = -32601

\* C5: when the forward to a validator fails with a transport error, the
\* call returns an error to the client, not a validator's response, and
\* nothing of the call reaches the executor stage.
ValidatorFailureAborts ==
    \A c \in Calls :
        (\E i \in Validators : vfwd[c][i] = "failed") =>
            /\ NoExecutorEffect(c)
            /\ pc[c] = "done" => result[c].kind = "error"

\* C5 witness: the last validator failed while all the others succeeded,
\* and the call is over.
OneValidatorFailedReached ==
    /\ pc[1] = "done"
    /\ vfwd[1][NumValidators] = "failed"
    /\ \A i \in Validators \ {NumValidators} : vfwd[1][i] = "ok"
    /\ result[1].kind = "error"

\* C6: with the auth layer installed, a request for which validate fails
\* never reaches the inner service: no target receives anything and the
\* client gets 401 with the JWT error's text as body.
AuthGate ==
    \A c \in Calls :
        authEnabled /\ pc[c] # "idle" /\ validate(req[c].header) # "ok" =>
            /\ pc[c] = "done"
            /\ result[c] =
                   Response(0, HttpResponse(401, "text", 0, <<validate(req[c].header)>>))
            /\ NoValidatorEffect(c)
            /\ NoExecutorEffect(c)

\* C6 witness: a token signed with another secret was rejected.
BadSignatureRejected ==
    /\ authEnabled
    /\ pc[1] = "done"
    /\ req[1].header = H_badsig
    /\ result[1].response.status = 401
    /\ result[1].response.message = <<"Invalid signature">>

\* C7: two calls whose validator responses have the same classes, index by
\* index, return the response of the same target index, whatever the order
\* in which the forwards finished and whatever the executors did.
SelectionDeterministic ==
    \A c1 \in Calls, c2 \in Calls :
        FanOk(c1) /\ FanOk(c2) /\ Kinds(c1) = Kinds(c2) =>
            /\ result[c1].kind = result[c2].kind
            /\ result[c1].src = result[c2].src

\* C7 witness: two finished calls with the same mixed tuple, whose
\* forwards finished in different orders and whose executor fans ended
\* differently.
SameTupleDifferentRuns ==
    /\ FanOk(1) /\ FanOk(2)
    /\ Kinds(1) = Kinds(2)
    /\ Kinds(1)[1] = "error" /\ Kinds(1)[NumValidators] = "success"
    /\ vorder[1] # vorder[2]
    /\ epc[1] = "done_ok" /\ epc[2] = "done_err"

\* C8 (as claimed): when no response is a pbh_error and some response is
\* not an error, the response returned is the non-error response of the
\* lowest target index.
FirstNonErrorInTargetOrder ==
    \A c \in Calls :
        FanOk(c) /\ ~Vetoed(c)
        /\ (\E i \in Validators : Kind(vresp[c][i]) = "success") =>
            /\ result[c].kind = "response"
            /\ result[c].src \in Validators
            /\ Kind(vresp[c][result[c].src]) = "success"
            /\ \A i \in Validators :
                   Kind(vresp[c][i]) = "success" => result[c].src <= i

\* C9: when the validator fan returned responses none of which is a
\* pbh_error (JSON-RPC errors included), the inner service was spawned
\* exactly once, with a clone of the request.
ExecutorTrigger ==
    \A c \in Calls :
        /\ spawned[c] <= 1
        /\ FanOk(c) /\ ~Vetoed(c) =>
               /\ spawned[c] = 1
               /\ epc[c] # "none"
               /\ ereq[c] = req[c]

\* C9 witness: every validator answered with a JSON-RPC error that is no
\* pbh_error, and the task was spawned.
SpawnedOnAllErrors ==
    /\ FanOk(1)
    /\ \A i \in Validators : Kind(vresp[1][i]) = "error"
    /\ spawned[1] = 1

\* C10: nothing of the executor stage exists for a call (no spawned task,
\* no executor forward, no request at an executor) while a validator
\* forward of the call has not returned its response.
ExecutorAfterValidators ==
    \A c \in Calls :
        (\/ epc[c] # "none"
         \/ \E j \in Executors : efwd[c][j] # "init" \/ recvE[c][j] # <<>>) =>
            \A i \in Validators : vfwd[c][i] = "ok"

\* C10 witness: an executor target has received the request.
ExecutorReached ==
    /\ \E j \in Executors : recvE[1][j] # <<>>
    /\ \A i \in Validators : vfwd[1][i] = "ok"

\* C11 (as claimed): a forward whose request the target has accepted
\* eventually returns (with the target's answer or with a timeout error),
\* and every call that passed the allow-list eventually completes, also
\* when a validator target never responds.
ForwardTimesOut ==
    /\ \A c \in Calls, i \in Validators :
           (vfwd[c][i] = "sent") ~> (vfwd[c][i] # "sent")
    /\ \A c \in Calls : (pc[c] = "fanning") ~> (pc[c] = "done")

\* C12 (as claimed): when a validator target answers with a body that does
\* not parse as a JSON-RPC response, forward returns Ok with that response
\* and error = None, so the round does not fail on it.
UnparseableIsNotAnError ==
    \A c \in Calls, i \in Validators :
        ParseFails(vbody[c][i]) =>
            /\ vfwd[c][i] = "ok"
            /\ vresp[c][i] = RpcResponse(i, vbody[c][i], None)

\* C12 (amended): when a validator target answers with a body that does not
\* parse as a JSON-RPC response, forward returns Err; the round fails: the
\* call returns an error to the client and nothing reaches the executor
\* stage.
UnparseableFailsTheRound ==
    \A c \in Calls, i \in Validators :
        ParseFails(vbody[c][i]) =>
            /\ vfwd[c][i] = "unparsed"
            /\ vresp[c][i] = NoRpcResponse
            /\ NoExecutorEffect(c)
            /\ pc[c] = "done" => result[c].kind = "error"

\* C12 witness: the first validator answered with an unparseable body, every
\* other validator with a success, and the call is over.
UnparseableAnswerReached ==
    /\ pc[1] = "done"
    /\ ParseFails(vbody[1][1])
    /\ \A i \in Validators \ {1} : vfwd[1][i] = "ok" /\ Kind(vresp[1][i]) = "success"
    /\ result[1].kind = "error"

\* C13: once ValidationService::call has looked at the method, the request
\* was forwarded to the validators if and only if "eth_" or "net_peerCount"
\* occurs somewhere in the method name; every other method was answered
\* with the -32601 response.
AllowListByContainment ==
    \A c \in Calls :
        Admitted(c) /\ req[c].kind = "json" /\ pc[c] # "validation" =>
            /\ (\E i \in Validators : vfwd[c][i] # "init")
                   <=> req[c].method \in MethodsHoldingAPattern
            /\ req[c].method \notin MethodsHoldingAPattern =>
                   /\ pc[c] = "done"
                   /\ result[c] = Response(0, invalid_method_response)

\* C13 witness: x_eth_y, which holds "eth_" after its first characters,
\* reached a validator.
ContainedPatternForwarded ==
    /\ req[1].method = S_x_eth_y
    /\ \E i \in Validators : recvV[1][i] # <<>>

\* C14 (as claimed): with the auth layer installed, every request whose
\* Authorization header is missing or does not start with "Bearer " is
\* answered 401 and goes no further.
BearerPrefixRequired ==
    \A c \in Calls :
        authEnabled /\ pc[c] # "idle" /\ ~HasBearerPrefix(req[c].header) =>
            /\ pc[c] = "done"
            /\ result[c].kind = "response"
            /\ result[c].response.status = 401

\* C15: with the auth layer installed, a bearer token signed with the
\* configured secret is refused with 401 "Invalid issuance timestamp" when
\* its iat is more than 60 seconds ahead of or behind the clock, and passes
\* the auth layer when it is within 60 seconds.
ClockSkewWindow ==
    \A c \in Calls :
        LET h == req[c].header
        IN authEnabled /\ pc[c] # "idle" /\ h.present /\ h.prefix = <<"Bearer ">>
           /\ h.jwt.wellformed /\ h.jwt.key = "server" =>
               IF h.jwt.iatSkew > 60 \/ h.jwt.iatSkew < -60
               THEN /\ pc[c] = "done"
                    /\ result[c] =
                           Response(0, HttpResponse(401, "text", 0,
                                                    <<"Invalid issuance timestamp">>))
               ELSE result[c].response.status # 401

\* C15 witness: a token issued 61 seconds ago was refused.
StaleTokenRefused ==
    /\ authEnabled
    /\ pc[1] = "done"
    /\ req[1].header = H_behind61
    /\ result[1].response.message = <<"Invalid issuance timestamp">>

\* C16 (as claimed): in the server Cli::serve builds with a secret, a
\* request to the liveness path that carries no Authorization header is
\* answered 200 by the health layer, not 401.
HealthProbeExemptFromAuth ==
    \A c \in Calls :
        harness = "cli" /\ authEnabled /\ pc[c] = "done"
        /\ req[c].path = HEALTH_PATH /\ req[c].header = H_missing =>
            /\ result[c].kind = "response"
            /\ result[c].response.status = 200

\* C17 (as claimed): in the server Cli::serve builds, the service called on
\* the detached task is ProxyService: once the task of a call with a
\* no-veto validator round has ended, it has run the executor fan.
ServeWiresExecutorStage ==
    \A c \in Calls :
        harness = "cli" /\ FanOk(c) /\ ~Vetoed(c) /\ TaskEnded(c) =>
            epc[c] \in {"done_ok", "done_err"}

\* C18 (as claimed): two runs of a validator round in which no target gave
\* two different outcomes (every target that finished in both finished the
\* same way: same response or same failure, at the same point) end with
\* the same result for the client and the same targets having received
\* the request, whatever the order in which the targets finished.
CompletionOrderNotObservable ==
    \A c1 \in Calls, c2 \in Calls :
        /\ pc[c1] = "done" /\ pc[c2] = "done"
        /\ \A i \in Validators :
               VFinished(c1, i) /\ VFinished(c2, i) =>
                   /\ vfwd[c1][i] = vfwd[c2][i]
                   /\ vbody[c1][i] = vbody[c2][i]
                   /\ recvV[c1][i] = recvV[c2][i]
        => /\ result[c1] = result[c2]
           /\ \A i \in Validators : recvV[c1][i] = recvV[c2][i]

\* C19 (as claimed): fan_request returns only after the forward to every
\* target has finished, and no forward is abandoned before its request was
\* sent, in the validator fan and in the executor fan.
FanAwaitsAll ==
    \A c \in Calls :
        /\ pc[c] = "done" /\ (\E i \in Validators : vfwd[c][i] # "init") =>
               \A i \in Validators : VFinished(c, i)
        /\ TaskEnded(c) /\ (\E j \in Executors : efwd[c][j] # "init") =>
               \A j \in Executors : EFinished(c, j)
        /\ \A i \in Validators : vfwd[c][i] = "dropped" => recvV[c][i] # <<>>
        /\ \A j \in Executors : efwd[c][j] = "dropped" => recvE[c][j] # <<>>

\* C20: whenever the forward to every validator has returned Ok, the i-th
\* element of the sequence fan_request returns is the response the i-th
\* target gave, whatever the order in which the targets finished.
FanOrdering ==
    \A c \in Calls :
        (\A i \in Validators : vfwd[c][i] = "ok") =>
            /\ Len(try_join_all(c)) = NumValidators
            /\ \A i \in Validators :
                   /\ try_join_all(c)[i].src = i
                   /\ try_join_all(c)[i].response = vbody[c][i]

\* C20 witness: the targets gave different responses and finished last
\* target first.
FinishedInReverseOrder ==
    /\ \A i \in Validators : vfwd[1][i] = "ok"
    /\ \A k \in 1..NumValidators : vorder[1][k] = NumValidators + 1 - k
    /\ vbody[1][1] # vbody[1][NumValidators]

\* C21: the caller's response does not depend on the executor stage. The
\* response is already returned when the detached task exists (the caller
\* never waits for an executor), and no step taken while the task exists,
\* whether executors answer, answer with errors, fail or stay silent,
\* changes it.
ClientResponseIgnoresExecutors ==
    [][\A c \in Calls :
          /\ epc[c] # "none" => pc[c] = "done" /\ result'[c] = result[c]
          /\ epc'[c] # "none" => pc'[c] = "done" /\ result'[c].kind = "response"]_vars

\* C21 witness: the executor fan failed after the caller was answered with
\* a validator's response.
ExecutorFanFailedAfterAnswer ==
    /\ epc[1] = "done_err"
    /\ \E j \in Executors : efwd[1][j] = "failed"
    /\ \E j \in Executors : recvE[1][j] # <<>>
    /\ result[1].kind = "response" /\ result[1].src \in Validators

\* C22: the detached task does not end with its caller: when the caller
\* has dropped a call whose task was spawned, the executor fan goes on until
\* every executor forward has returned, with a response or with an error.
DetachedTaskOutlivesCaller ==
    \A c \in Calls :
        (cancelled[c] # "no" /\ epc[c] # "none") ~>
            (\A j \in Executors : EFinished(c, j))

\* C23: a call dropped before its validator fan returned leaves no
\* validator forward outstanding and never reaches an executor.
CancelStopsValidatorStage ==
    \A c \in Calls :
        cancelled[c] \in {"validation", "fanning"} =>
            /\ \A i \in Validators : vfwd[c][i] \notin {"pending", "sent"}
            /\ spawned[c] = 0
            /\ NoExecutorEffect(c)
            /\ result[c] = Pending

\* C23 witness: the call was dropped in its validator fan, with a forward
\* on the wire and another already answered.
DroppedInValidatorFan ==
    /\ cancelled[1] = "fanning"
    /\ \E i \in Validators : vfwd[1][i] = "dropped" /\ recvV[1][i] # <<>>
    /\ \E i \in Validators : vfwd[1][i] = "ok"

\* C24: no target, validator or executor, receives the request of a call
\* more than once, however the call goes.
NoRetry ==
    \A c \in Calls :
        /\ \A i \in Validators : Len(recvV[c][i]) <= 1
        /\ \A j \in Executors : Len(recvE[c][j]) <= 1

\* C24 witness: a validator forward failed after its request was written
\* and the call ended with that error, the request sent once.
FailedForwardSentOnce ==
    /\ pc[1] = "done" /\ result[1].kind = "error"
    /\ \E i \in Validators : vfwd[1][i] = "failed" /\ Len(recvV[1][i]) = 1

\* C25: a call whose body cannot be read, is not JSON or has no "method"
\* ends with an error for the caller, and no target, validator or
\* executor, receives anything.
BodyErrorRejectsBeforeFanout ==
    \A c \in Calls :
        Admitted(c) /\ req[c].kind # "json" /\ pc[c] # "validation" =>
            /\ pc[c] = "done"
            /\ result[c] = Failure(0)
            /\ NoValidatorEffect(c)
            /\ NoExecutorEffect(c) /\ spawned[c] = 0

\* C25 witness: a body with no "method" was refused.
NoMethodBodyRefused ==
    /\ pc[1] = "done" /\ Admitted(1)
    /\ req[1].kind = "no_method"
    /\ result[1].kind = "error"

SuccessWinsOverPeerErrors ==
    \A c \in Calls :
        FanOk(c) /\ ~Vetoed(c)
        /\ (\E i \in Validators : ~is_error(vresp[c][i])) =>
            \E i \in Validators :
                /\ result[c] = Response(i, vbody[c][i])
                /\ ~is_error(vresp[c][i])
                /\ parse_response_payload(result[c].response) = None

\* C27 witness: the first target answered with a JSON-RPC error, a later
\* one with a result, and the caller got the result.
FirstTargetErrorOvercome ==
    /\ FanOk(1) /\ ~Vetoed(1)
    /\ is_error(vresp[1][1])
    /\ result[1].src > 1 /\ result[1].response = OkPayload

\* C28: for every vector of N >= 1 responses the selection is the
\* reference algorithm: the first pbh error among responses 1..N-1 if
\* there is one; otherwise the first of responses 1..N-1 that is not an
\* error if there is one; otherwise response 0.
SelectionFollowsReference ==
    picked # None =>
        LET N == Len(tuple)
            vetoes == {k \in 2..N : pbh_error(tuple[k])}
            candidates == {k \in 2..N : ~is_error(tuple[k])}
            First(S) == CHOOSE k \in S : \A m \in S : k <= m
        IN picked[1] =
               IF vetoes # {} THEN tuple[First(vetoes)]
               ELSE IF candidates # {} THEN tuple[First(candidates)]
               ELSE tuple[1]

\* C28 witness: a success, then two pbh errors: the first pbh error after
\* response 0 was selected, the loop ended there.
FirstVetoAfterCandidateSelected ==
    /\ Len(tuple) = 3 /\ picked # None
    /\ ~is_error(tuple[2]) /\ pbh_error(tuple[3])
    /\ picked[1].src = 3

\* C29: pbh_error() is true exactly for a response whose body is a JSON-RPC
\* error with code -32603 and a message that begins with "PBH Transaction
\* Validation Failed"; it is false for a result, for another code, and for
\* -32603 with a message that does not begin so.
PbhErrorClassification ==
    flags # <<>> =>
        \A k \in DOMAIN tuple :
            LET body == tuple[k].response
            IN /\ flags[k] <=>
                      /\ body.tag = "error"
                      /\ body.code = -32603
                      /\ Len(body.message) >= 4
                      /\ body.message[1] = "PBH" /\ body.message[2] = "Transaction"
                      /\ body.message[3] = "Validation" /\ body.message[4] = "Failed"
               /\ body \in {OkPayload, AppErrPayload, PbhOtherCodePayload,
                             InternalErrPayload, PbhInsidePayload} => ~flags[k]
               /\ body \in {PbhPayload, PbhReasonPayload} => flags[k]

\* C29 witness: a vector holding -32603 without the prefix, the prefix
\* under another code, and the pbh error with its reason was classified.
EveryKindClassified ==
    /\ Len(tuple) = 3 /\ flags # <<>>
    /\ tuple[1].response = InternalErrPayload
    /\ tuple[2].response = PbhOtherCodePayload
    /\ tuple[3].response = PbhReasonPayload
    /\ flags = <<FALSE, FALSE, TRUE>>

\* C30: with two calls in flight at once, what each caller gets and
\* whether each call's task is spawned are decided by that call's own
\* validator outcomes: the task is spawned exactly when the call's own fan
\* returned Ok with no pbh error, the response is the selection from the
\* call's own responses, an error is the error of one of its own forwards,
\* and the executors are sent the call's own request.
ConcurrentCallsIndependent ==
    \A c \in Calls :
        pc[c] = "done" =>
            /\ spawned[c] = (IF FanOk(c) /\ ~Vetoed(c) THEN 1 ELSE 0)
            /\ (\E j \in Executors : recvE[c][j] # <<>>) => spawned[c] = 1
            /\ \A j \in Executors : BodiesOf(recvE[c][j]) \in {<<>>, <<CallerBody(c)>>}
            /\ IF FanOk(c)
               THEN \E i \in Validators : result[c] = Response(i, vbody[c][i])
               ELSE /\ result[c].kind = "error"
                    /\ result[c].src \in Validators
                    /\ IsErr(vfwd[c][result[c].src])

\* C30 witness: one call of the pair was vetoed and reached no executor,
\* the other went through to every executor.
VetoBesideForwardedCall ==
    /\ pc[1] = "done" /\ Vetoed(1) /\ FanOk(1) /\ NoExecutorEffect(1)
    /\ pc[2] = "done" /\ spawned[2] = 1
    /\ \A j \in Executors : recvE[2][j] # <<>>

\* C31: with metrics disabled, once the server is started it is not
\* stopped and run does not return unless SIGINT or SIGTERM was received
\* or the server stopped by itself.
RunsUntilShutdownTrigger ==
    ~opts.metrics /\ runpc \in {"returned", "exited"} /\ server # "none" =>
        \/ trigger = "ctrl_c" /\ "SIGINT" \in signals
        \/ trigger = "sigterm" /\ "SIGTERM" \in signals
        \/ trigger = "stopped" /\ server = "crashed"

\* C32: with metrics enabled, the process exits with 0 only when SIGINT or
\* SIGTERM triggered the shutdown; it exits with a non-zero code when the
\* server stopped by itself, when the server was never started and when
\* the metrics listener could not be bound.
ExitCodes ==
    opts.metrics /\ runpc = "exited" =>
        /\ exitCode = 0 => trigger \in {"ctrl_c", "sigterm"}
        /\ trigger = "stopped" => exitCode # 0
        /\ server = "none" => exitCode # 0
        /\ metricsTask = "ended" /\ signals = {} => exitCode # 0

\* C33: with neither a token nor a path for the validators' secret, build
\* fails: serve starts no server and run returns the error; with both, the
\* clients are built with the token's secret.
ValidatorSecretRequired ==
    /\ opts.builder_jwt_token = "none" /\ opts.builder_jwt_path = "none" =>
           /\ server = "none" /\ fanoutSecret = "none"
           /\ runpc # "select"
           /\ runpc \in {"returned", "exited"} => runResult = "err"
    /\ opts.builder_jwt_token # "none" /\ opts.builder_jwt_path # "none"
       /\ server # "none" => fanoutSecret = "hex"

\* C33 witness: a token beside a path: the server runs, its clients built
\* with the token's secret.
TokenBesidePathServed ==
    /\ opts.builder_jwt_token = "hex" /\ opts.builder_jwt_path = "file"
    /\ server = "running"
    /\ fanoutSecret = "hex"

\* C34: whatever FanoutWrite the service was built with, a vector that
\* fan_request returned is not empty, so the selection does not fail and no
\* task was spawned for a call that fails afterwards.
SelectionNeverFails ==
    /\ ~panicked
    /\ detached => picked # None /\ tuple # <<>>

\* C35: every value recorded to builder_failed_requests and to
\* l2_failed_requests is 0: a fan that returned Ok records the difference
\* between its targets and its responses, which is none, and a fan in
\* which a target failed records nothing.
FailedRequestMetricIsZero ==
    \A c \in Calls :
        /\ \A k \in DOMAIN builder_failed_requests[c] : builder_failed_requests[c][k] = 0
        /\ \A k \in DOMAIN l2_failed_requests[c] : l2_failed_requests[c][k] = 0
        /\ Len(builder_failed_requests[c]) = (IF FanOk(c) THEN 1 ELSE 0)
        /\ Len(l2_failed_requests[c]) = (IF epc[c] = "done_ok" THEN 1 ELSE 0)

\* C35 witness: the validator fan returned Ok and recorded 0; the executor
\* fan had a target fail and recorded nothing.
ExecutorFailureNotRecorded ==
    /\ FanOk(1) /\ builder_failed_requests[1] = <<0>>
    /\ epc[1] = "done_err"
    /\ \E j \in Executors : efwd[1][j] = "failed"
    /\ l2_failed_requests[1] = <<>>

\* C36: AnyOr::coalesce returns Any when at least one item is Any, at any
\* position, and otherwise Specific of the items' values in their original
\* order, which is Specific of the empty list for an empty input.
CoalesceAnyOrValuesInOrder ==
    coalesced # None =>
        IF \E k \in DOMAIN items : items[k] = AnyOrAny
        THEN coalesced = Some(AnyOrAny)
        ELSE /\ coalesced[1].tag = "Specific"
             /\ Len(coalesced[1].value) = Len(items)
             /\ \A k \in DOMAIN items : coalesced[1].value[k] = items[k].value

\* C36 witness: the Any item comes after a Specific one (["1", "*"] of
\* tests::coalesce) and the result is Any.
AnyAfterSpecificCoalesced ==
    /\ items = <<Specific(1), AnyOrAny>>
    /\ coalesced = Some(AnyOrAny)

====
